---- MODULE Spec2Model ----
(***************************************************************************)
(* ChArUco camera calibration tools.                                       *)
(*   kalibracja.py       -- the calibration pipeline: source -> detection  *)
(*                          -> quality gate -> accumulation -> solver ->   *)
(*                          result files                                   *)
(*   kalibracja1fotka.py -- the batch evaluator of still images            *)
(*   camera_calibration.py -- calibrate_camera_with_aruco, the interactive *)
(*                          capture of ArUco views and their calibration   *)
(* One run of one tool is one behaviour; `tool` says which tool runs.      *)
(* The detector, the calibration solver and the file system are the        *)
(* environment: a detection result, the outcome of a read or of opening a  *)
(* capture device is a choice the environment makes.                       *)
(***************************************************************************)
EXTENDS Integers, Sequences, FiniteSets, TLC

---------------------------------------------------------------------------
(* Bounds of the model *)

\* longest image list / largest --max-frames
MaxLen == 4
\* most image files in the directory of the batch evaluator
MaxFiles == 3
\* largest num_images of calibrate_camera_with_aruco
MaxImages == 6

---------------------------------------------------------------------------
(* Values *)

None == "None"
\* imsize before the first frame (Python None)
NoSize == <<>>
\* gather_images_from_source returning None; file names are 1, 2, ...
NoList == <<0>>
\* no frame processed yet
NoFrame == [shape |-> <<0, 0>>, corners |-> <<>>, ids |-> <<>>]
\* no image evaluated yet
NoResult == [ok |-> FALSE, n |-> 0, area |-> <<0, 1>>, out_img |-> 0]
\* no run of the batch evaluator before this one
NoRun == [rows |-> <<>>, summary |-> <<>>, seen |-> <<>>, exit_code |-> -1]

\* max(args.min_frames, 4): the solver needs at least 4 views
MinViews == 4
\* key code of ESC, the stop key of the preview window
ESC == 27
\* any other result of waitKey(1) & 0xFF (255: no key pressed)
NoKey == 255
\* ord(' '), the capture key of calibrate_camera_with_aruco
SPACE == 32
\* markers a frame needs to be stored as a view
MinMarkers == 4
\* views calibrate_camera_with_aruco needs to call the solver
MinCalibrationViews == 5

Max(a, b) == IF a >= b THEN a ELSE b
Min(a, b) == IF a <= b THEN a ELSE b

RECURSIVE SetMin(_)
SetMin(S) == LET x == CHOOSE x \in S : TRUE
             IN  IF S = {x} THEN x ELSE Min(x, SetMin(S \ {x}))
RECURSIVE SetMax(_)
SetMax(S) == LET x == CHOOSE x \in S : TRUE
             IN  IF S = {x} THEN x ELSE Max(x, SetMax(S \ {x}))

\* sorted(...) of a set of path names (names are numbered in path order)
RECURSIVE sorted(_)
sorted(S) == IF S = {} THEN <<>>
             ELSE LET m == SetMin(S) IN <<m>> \o sorted(S \ {m})

---------------------------------------------------------------------------
(* Frames and detection results *)

\* image sizes (width, height) the sources deliver
Sizes == {<<4, 2>>, <<4, 4>>}

\* point j of the corner pattern the pipeline's detector reports
BasePoint(j) == <<j % 3, (j \div 3) % 3>>

\* numbers of ChArUco corners the detector reports in a pipeline frame
CornerCounts == {0, 1, 2}

\* the detection with k corners (k = 0: the detector returned None or an
\* empty array)
CornersOfCount(k) == [j \in 1..k |-> BasePoint(j)]

\* charucoIds of a detection: one unique id per corner
IdsOf(corners) == [j \in 1..Len(corners) |-> j - 1]

\* a decoded image: numpy shape (rows, columns) plus what the detector
\* will find in it
Image(size, corners) ==
    [shape |-> <<size[2], size[1]>>, corners |-> corners, ids |-> IdsOf(corners)]

\* frames a pipeline source can deliver
PipelineFrames == {Image(s, CornersOfCount(k)) : s \in Sizes, k \in CornerCounts}

---------------------------------------------------------------------------
(* The --source argument and the file system it is resolved against *)

\* What the pipeline asks about a source string.  `fix` is the string with
\* every " ." replaced by "."; `index` is int(source) where it parses.
SourceInfo ==
    [s \in {"", "0", "7", "imgs/*.jpg", "imgs", "shot.jpg", "shot .jpg", "clip.MOV",
            "clip .MOV", "gone.mp4", "gone .mp4", "nowhere", "/dev/video0"} |->
     CASE s = "" ->
            [hasGlob |-> FALSE, exists |-> TRUE, isDir |-> TRUE, isFile |-> FALSE,
             isInt |-> FALSE, index |-> 0, videoSuffix |-> FALSE, fix |-> s]
       [] s = "0" ->
            [hasGlob |-> FALSE, exists |-> FALSE, isDir |-> FALSE, isFile |-> FALSE,
             isInt |-> TRUE, index |-> 0, videoSuffix |-> FALSE, fix |-> s]
       [] s = "7" ->
            [hasGlob |-> FALSE, exists |-> FALSE, isDir |-> FALSE, isFile |-> FALSE,
             isInt |-> TRUE, index |-> 7, videoSuffix |-> FALSE, fix |-> s]
       [] s = "imgs/*.jpg" ->
            [hasGlob |-> TRUE, exists |-> FALSE, isDir |-> FALSE, isFile |-> FALSE,
             isInt |-> FALSE, index |-> 0, videoSuffix |-> FALSE, fix |-> s]
       [] s = "imgs" ->
            [hasGlob |-> FALSE, exists |-> TRUE, isDir |-> TRUE, isFile |-> FALSE,
             isInt |-> FALSE, index |-> 0, videoSuffix |-> FALSE, fix |-> s]
       [] s = "shot.jpg" ->
            [hasGlob |-> FALSE, exists |-> TRUE, isDir |-> FALSE, isFile |-> TRUE,
             isInt |-> FALSE, index |-> 0, videoSuffix |-> FALSE, fix |-> s]
       [] s = "shot .jpg" ->
            [hasGlob |-> FALSE, exists |-> TRUE, isDir |-> FALSE, isFile |-> TRUE,
             isInt |-> FALSE, index |-> 0, videoSuffix |-> FALSE, fix |-> "shot.jpg"]
       [] s = "clip.MOV" ->
            [hasGlob |-> FALSE, exists |-> TRUE, isDir |-> FALSE, isFile |-> TRUE,
             isInt |-> FALSE, index |-> 0, videoSuffix |-> TRUE, fix |-> s]
       [] s = "clip .MOV" ->
            [hasGlob |-> FALSE, exists |-> FALSE, isDir |-> FALSE, isFile |-> FALSE,
             isInt |-> FALSE, index |-> 0, videoSuffix |-> TRUE, fix |-> "clip.MOV"]
       [] s = "gone.mp4" ->
            [hasGlob |-> FALSE, exists |-> FALSE, isDir |-> FALSE, isFile |-> FALSE,
             isInt |-> FALSE, index |-> 0, videoSuffix |-> TRUE, fix |-> s]
       [] s = "gone .mp4" ->
            [hasGlob |-> FALSE, exists |-> FALSE, isDir |-> FALSE, isFile |-> FALSE,
             isInt |-> FALSE, index |-> 0, videoSuffix |-> TRUE, fix |-> "gone.mp4"]
       [] s = "nowhere" ->
            [hasGlob |-> FALSE, exists |-> FALSE, isDir |-> FALSE, isFile |-> FALSE,
             isInt |-> FALSE, index |-> 0, videoSuffix |-> FALSE, fix |-> s]
       [] s = "/dev/video0" ->
            [hasGlob |-> FALSE, exists |-> TRUE, isDir |-> FALSE, isFile |-> FALSE,
             isInt |-> FALSE, index |-> 0, videoSuffix |-> FALSE, fix |-> s]]

Sources == DOMAIN SourceInfo

\* the name under which cv2.VideoCapture(n) opens camera n
CameraDevice(n) == IF n = 0 THEN "camera:0" ELSE "camera:7"

\* what the source string names, read as the user means it: camera n for an
\* integer n, the path otherwise
NamedDevice(s) == IF SourceInfo[s].isInt THEN CameraDevice(SourceInfo[s].index) ELSE s

\* capture targets that may be openable at all (a missing path never is)
Devices == {"camera:0", "camera:7", "/dev/video0"}

is_camera_index(s) == SourceInfo[s].isInt

\* variant: a missing path with " ." in it is always replaced by the path
\* without the space
normalize_source_always_fix(src) ==
    LET s == IF src = "" THEN "0" ELSE src
    IN  IF ~SourceInfo[s].exists THEN SourceInfo[s].fix ELSE s

\* main, source normalisation: an empty source becomes camera "0"; a
\* missing path with " ." in it is replaced by the path without the space
\* when that one exists
normalize_source(src) ==
    LET s == IF src = "" THEN "0" ELSE src
    IN  IF ~SourceInfo[s].exists
        THEN IF SourceInfo[s].fix # s
             THEN IF SourceInfo[SourceInfo[s].fix].exists THEN SourceInfo[s].fix ELSE s
             ELSE s
        ELSE s

\* variant: the files are listed in descending order
gather_images_from_source_descending(s, listing) ==
    LET up == sorted(listing)
        down == [j \in 1..Len(up) |-> up[Len(up) + 1 - j]]
    IN  IF SourceInfo[s].hasGlob THEN down
        ELSE IF SourceInfo[s].exists /\ SourceInfo[s].isDir THEN down
        ELSE IF SourceInfo[s].exists /\ SourceInfo[s].isFile THEN <<1>>
        ELSE NoList

\* gather_images_from_source: the list of image files, or None.  `listing`
\* is the set of files the glob matches / the directory holds; the files
\* are numbered in the order of their path strings.
gather_images_from_source(s, listing) ==
    IF SourceInfo[s].hasGlob THEN sorted(listing)
    ELSE IF SourceInfo[s].exists /\ SourceInfo[s].isDir THEN sorted(listing)
    ELSE IF SourceInfo[s].exists /\ SourceInfo[s].isFile THEN <<1>>
    ELSE NoList

\* the elif of main that selects camera/video mode
is_capture_source(s) ==
    \/ is_camera_index(s)
    \/ SourceInfo[s].videoSuffix
    \/ SourceInfo[s].exists

\* the argument main passes to cv2.VideoCapture
capture_target(s) == IF is_camera_index(s) THEN CameraDevice(0) ELSE s

---------------------------------------------------------------------------
(* The quality gate and the minimum-frame rule of the pipeline *)

\* variant: n_c is one more than the number of detected corners
corner_count_plus_one(charucoCorners) == Len(charucoCorners) + 1

\* n_c of process_frame
corner_count(charucoCorners) == Len(charucoCorners)

\* variant: a frame with exactly min_corners corners is rejected
accept_frame_strict(n_c, min_corners) == n_c > min_corners

\* the ACCEPT condition of process_frame
accept_frame(n_c, min_corners) == n_c >= min_corners

\* variant: no floor of MinViews under --min-frames
required_frames_nofloor(min_frames) == min_frames

\* frames main requires before it calibrates
required_frames(min_frames) == Max(min_frames, MinViews)

\* variant: only the floor is tested, --min-frames is ignored
too_few_frames_floor_only(n_accepted, min_frames) == n_accepted < MinViews

\* the test that ends the run with "too few good frames"
too_few_frames(n_accepted, min_frames) == n_accepted < required_frames(min_frames)

\* variant: ESC ends the loop whether or not the preview is shown
stop_requested_any(show, k) == k = ESC

\* the break of the preview: --show is set and waitKey(1) & 0xFF is ESC
stop_requested(show, k) == show /\ k = ESC

\* calibrate_camera_with_aruco has not returned yet
Running == "Running"
\* ids of detectMarkers when no marker is found (Python None); marker ids are 1, 2, ...
NoIds == <<0>>
\* corners and ids before the first frame
NoDetection == [corners |-> <<>>, ids |-> NoIds]

\* variant: the frames at positions N-1, 2N-1, ... are processed
on_step_grid_one_based(idx, frame_step) == ((idx + 1) % frame_step) = 0

\* the capture loop processes the frame at position idx
on_step_grid(idx, frame_step) == (idx % frame_step) = 0

---------------------------------------------------------------------------
(* State *)

VARIABLES
    tool,           \* "pipeline" (kalibracja.py), "batch" (kalibracja1fotka.py) or
                    \* "camera" (camera_calibration.py)
    args,           \* the parsed command line
    source,         \* args.source
    listing,        \* files the glob matches / the directory holds
    openable,       \* capture devices cv2.VideoCapture can open
    pc,             \* position of main
    image_list,     \* result of gather_images_from_source
    all_corners,    \* charucoCorners of the accepted frames
    all_ids,        \* charucoIds of the accepted frames
    imsize,         \* (w, h) or NoSize
    accepted,       \* number of accepted frames
    i,              \* index of the image loop
    frame_idx,      \* frames read from the capture so far
    used,           \* frames of the capture passed to process_frame
    status,         \* result of the last process_frame (1 accept, 0 reject; -1 before)
    exit_code,      \* -1 while running, else the exit status
    message,        \* the diagnostic printed before sys.exit
    solver_calls,   \* arguments of every call of the calibration solver
    artifacts,      \* result files written
    cur,            \* history: the frame handed to the last process_frame
    seen,           \* history: position and corners of every processed frame
    appended_sizes, \* history: (w, h) of every frame appended to all_corners
    files,          \* batch: result of list_images
    total,          \* batch: images evaluated
    res,            \* batch: (ok, n, area, out_img) of the last eval_image
    rows,           \* batch: one row per evaluated image
    overlays,       \* batch: overlay files in outdir, as <<file name, input written to it>>
    summary,        \* batch: the printed summary, <<>> before
    key,            \* result of the last waitKey(1) & 0xFF (NoKey before)
    argv_source,    \* history: --source as given on the command line
    earlier,        \* history: rows, summary and exit status of the batch run before this one
    outdir,         \* pipeline: files of the output directory, as [name, run]
    image_count,    \* camera: views captured so far
    image_size,     \* camera: (w, h) of the first frame read, or NoSize
    ret,            \* camera: result flag of the last cap.read() (TRUE before)
    detected,       \* camera: (corners, ids) detectMarkers found in the current frame
    returned        \* camera: what calibrate_camera_with_aruco returned (Running before)

vars == <<tool, args, source, listing, openable, pc, image_list, all_corners,
          all_ids, imsize, accepted, i, frame_idx, used, status, exit_code,
          message, solver_calls, artifacts, cur, seen, appended_sizes,
          files, total, res, rows, overlays, summary, key, argv_source, earlier,
          outdir, image_count, image_size, ret, detected, returned>>

\* variables of the batch evaluator
batch_vars == <<files, total, res, rows, overlays, summary, earlier>>

\* variables of the environment and the command line, fixed during a run
env_vars == <<tool, args, listing, openable, argv_source>>

\* variables process_frame writes, and the key read while its frame is shown
frame_vars == <<all_corners, all_ids, imsize, accepted, status, cur, seen, appended_sizes, key>>

\* variables of calibrate_camera_with_aruco alone
camera_vars == <<image_count, image_size, ret, detected, returned>>

\* variables written after acquisition
result_vars == <<exit_code, message, solver_calls, artifacts>>

---------------------------------------------------------------------------
(* Result files of the pipeline *)

\* time.strftime("%Y%m%d_%H%M%S") at clock reading t: the clock is read in
\* half seconds and the format keeps whole seconds
strftime(t) == t \div 2

\* names of the files a run writes when it saves at clock reading t: the
\* bundle, and the preview when imsize is set
result_names(t, with_preview) ==
    {<<"charuco_calib", strftime(t), ".npz">>}
      \cup (IF with_preview THEN {<<"undistort_preview", strftime(t), ".jpg">>} ELSE {})

\* np.savez / cv2.imwrite of run r: a file of the same name is replaced
write_files(dir, names, r) ==
    {f \in dir : f.name \notin names} \cup {[name |-> n, run |-> r] : n \in names}

\* clock readings at which this run may save; the run before it saved at 0
SaveTimes == 1..3

\* the output directory after an earlier completed run (run 1)
PriorResults == write_files({}, result_names(0, TRUE), 1)

---------------------------------------------------------------------------
(* Command lines *)

MinCornersOpts == {0, 2}
MinFramesOpts  == {2, MinViews + 1}
FrameStepOpts  == {1, 2}
MaxFramesOpts  == {0, 2, MaxLen}

PipelineArgs ==
    [min_corners : MinCornersOpts, min_frames : MinFramesOpts,
     frame_step : FrameStepOpts, max_frames : MaxFramesOpts, show : BOOLEAN]

\* sources whose files are listed: a glob or a directory
ListedSource(s) == SourceInfo[s].hasGlob \/ SourceInfo[s].isDir

\* devices whose availability matters to a run on source s
RelevantDevices(s) ==
    Devices \cap (IF s = "" \/ SourceInfo[s].isInt
                  THEN {CameraDevice(0), NamedDevice(s)} ELSE {s})

InitPipeline ==
    /\ tool = "pipeline"
    /\ args \in PipelineArgs
    /\ source \in Sources
    /\ \E n \in 0..MaxLen :
          listing = IF source # "" /\ ListedSource(source) THEN 1..n ELSE {}
    /\ openable \in SUBSET RelevantDevices(source)
    \* --frame-step is read by the capture loop only: the other sources run
    \* with its default
    /\ RelevantDevices(source) = {} => args.frame_step = 1
    /\ pc = "start"
    /\ image_list = NoList
    /\ all_corners = <<>>
    /\ all_ids = <<>>
    /\ imsize = NoSize
    /\ accepted = 0
    /\ i = 0
    /\ frame_idx = 0
    /\ used = 0
    /\ status = -1
    /\ exit_code = -1
    /\ message = None
    /\ solver_calls = <<>>
    /\ artifacts = {}
    /\ cur = NoFrame
    /\ seen = <<>>
    /\ appended_sizes = <<>>
    /\ files = <<>>
    /\ total = 0
    /\ res = NoResult
    /\ rows = <<>>
    /\ overlays = {}
    /\ summary = <<>>
    /\ key = NoKey
    /\ argv_source = source
    /\ earlier = NoRun
    /\ outdir = PriorResults
    /\ image_count = 0
    /\ image_size = NoSize
    /\ ret = TRUE
    /\ detected = NoDetection
    /\ returned = Running

---------------------------------------------------------------------------
(* kalibracja.py: main *)

\* variant: an accepted detection is put in front of the lists
process_frame_prepend(bgr, pos) ==
    LET n_c == corner_count(bgr.corners)
        h   == bgr.shape[1]
        w   == bgr.shape[2]
    IN  /\ imsize' = IF imsize = NoSize THEN <<w, h>> ELSE imsize
        /\ cur' = bgr
        /\ seen' = Append(seen, [pos |-> pos, corners |-> bgr.corners])
        /\ IF accept_frame(n_c, args.min_corners)
           THEN /\ all_corners' = <<bgr.corners>> \o all_corners
                /\ all_ids' = <<bgr.ids>> \o all_ids
                /\ accepted' = accepted + 1
                /\ status' = 1
                /\ appended_sizes' = Append(appended_sizes, <<w, h>>)
           ELSE /\ status' = 0
                /\ UNCHANGED <<all_corners, all_ids, accepted, appended_sizes>>

\* process_frame(bgr): record the size of the first frame, detect, gate,
\* and append the detection on ACCEPT.  pos is the frame's position in the
\* source (history only).
process_frame(bgr, pos) ==
    LET n_c == corner_count(bgr.corners)
        h   == bgr.shape[1]
        w   == bgr.shape[2]
    IN  /\ imsize' = IF imsize = NoSize THEN <<w, h>> ELSE imsize
        /\ cur' = bgr
        /\ seen' = Append(seen, [pos |-> pos, corners |-> bgr.corners])
        /\ IF accept_frame(n_c, args.min_corners)
           THEN /\ all_corners' = Append(all_corners, bgr.corners)
                /\ all_ids' = Append(all_ids, bgr.ids)
                /\ accepted' = accepted + 1
                /\ status' = 1
                /\ appended_sizes' = Append(appended_sizes, <<w, h>>)
           ELSE /\ status' = 0
                /\ UNCHANGED <<all_corners, all_ids, accepted, appended_sizes>>

\* main up to the choice of the mode: normalise the source, gather the
\* image list, and enter still-image mode when there is a list
OpenImages ==
    /\ tool = "pipeline" /\ pc = "start"
    /\ LET src == normalize_source(source)
           lst == gather_images_from_source(src, listing)
       IN  /\ lst # NoList
           /\ source' = src
           /\ image_list' = lst
           /\ pc' = "images"
    /\ UNCHANGED <<env_vars, camera_vars, outdir, batch_vars, frame_vars, result_vars, i, frame_idx, used>>

\* camera/video mode with a capture that opens
OpenCapture ==
    /\ tool = "pipeline" /\ pc = "start"
    /\ LET src == normalize_source(source)
       IN  /\ gather_images_from_source(src, listing) = NoList
           /\ is_capture_source(src)
           /\ capture_target(src) \in openable
           /\ source' = src
           /\ pc' = "capture"
    /\ UNCHANGED <<env_vars, camera_vars, outdir, batch_vars, frame_vars, result_vars, image_list, i, frame_idx, used>>

\* camera/video mode with a capture that does not open: exit 1
OpenCaptureFails ==
    /\ tool = "pipeline" /\ pc = "start"
    /\ LET src == normalize_source(source)
       IN  /\ gather_images_from_source(src, listing) = NoList
           /\ is_capture_source(src)
           /\ capture_target(src) \notin openable
           /\ source' = src
           /\ message' = "not_opened"
           /\ exit_code' = 1
           /\ pc' = "exit"
    /\ UNCHANGED <<env_vars, camera_vars, outdir, batch_vars, frame_vars, image_list, i, frame_idx, used,
                   solver_calls, artifacts>>

\* neither a list nor a capture source: exit 1
SourceNotRecognized ==
    /\ tool = "pipeline" /\ pc = "start"
    /\ LET src == normalize_source(source)
       IN  /\ gather_images_from_source(src, listing) = NoList
           /\ ~is_capture_source(src)
           /\ source' = src
           /\ message' = "not_recognized"
           /\ exit_code' = 1
           /\ pc' = "exit"
    /\ UNCHANGED <<env_vars, camera_vars, outdir, batch_vars, frame_vars, image_list, i, frame_idx, used,
                   solver_calls, artifacts>>

\* cv2.imread of an existing video file yields no image
ReadableAsImage(s) == ~(SourceInfo[s].isFile /\ SourceInfo[s].videoSuffix)

\* still-image loop: the list is exhausted, or i reached --max-frames
ImagesEnd ==
    /\ tool = "pipeline" /\ pc = "images"
    /\ i >= Len(image_list) \/ i >= args.max_frames
    /\ pc' = "finalize"
    /\ UNCHANGED <<env_vars, camera_vars, outdir, batch_vars, source, image_list, frame_vars, result_vars, i, frame_idx, used>>

\* still-image loop: imread returns None, warn and continue
ImageUnreadable ==
    /\ tool = "pipeline" /\ pc = "images"
    /\ i < Len(image_list) /\ i < args.max_frames
    /\ i' = i + 1
    /\ UNCHANGED <<env_vars, camera_vars, outdir, batch_vars, source, image_list, frame_vars, result_vars, pc, frame_idx, used>>

\* still-image loop: one image is read and processed
ImageFrame ==
    /\ tool = "pipeline" /\ pc = "images"
    /\ i < Len(image_list) /\ i < args.max_frames
    /\ ReadableAsImage(source)
    /\ \E bgr \in PipelineFrames, k \in {ESC, NoKey} :
          /\ process_frame(bgr, i)
          /\ key' = IF args.show THEN k ELSE key
          /\ IF stop_requested(args.show, k)
             THEN pc' = "finalize" /\ i' = i
             ELSE pc' = pc /\ i' = i + 1
    /\ UNCHANGED <<env_vars, camera_vars, outdir, batch_vars, source, image_list, result_vars, frame_idx, used>>

\* capture loop: cap.read() fails (end of stream, or the camera stops
\* delivering), cap.release()
CaptureEnd ==
    /\ tool = "pipeline" /\ pc = "capture"
    /\ pc' = "finalize"
    /\ UNCHANGED <<env_vars, camera_vars, outdir, batch_vars, source, image_list, frame_vars, result_vars, i, frame_idx, used>>

\* frames a capture delivers: one resolution per stream
CaptureFrames ==
    {f \in PipelineFrames : imsize # NoSize => <<f.shape[2], f.shape[1]>> = imsize}

\* capture loop: a frame off the --frame-step grid is read and dropped
CaptureSkip ==
    /\ tool = "pipeline" /\ pc = "capture"
    /\ ~on_step_grid(frame_idx, args.frame_step)
    /\ frame_idx' = frame_idx + 1
    /\ UNCHANGED <<env_vars, camera_vars, outdir, batch_vars, source, image_list, frame_vars, result_vars, pc, i, used>>

\* variant: the capture loop does not test the cap
CaptureFrame_no_cap ==
    /\ tool = "pipeline" /\ pc = "capture"
    /\ on_step_grid(frame_idx, args.frame_step)
    /\ \E bgr \in CaptureFrames, k \in {ESC, NoKey} :
          /\ process_frame(bgr, frame_idx)
          /\ used' = used + 1
          /\ key' = IF args.show THEN k ELSE key
          /\ IF stop_requested(args.show, k)
             THEN pc' = "finalize" /\ frame_idx' = frame_idx
             ELSE pc' = pc /\ frame_idx' = frame_idx + 1
    /\ UNCHANGED <<env_vars, camera_vars, outdir, batch_vars, source, image_list, result_vars, i>>

\* capture loop: a frame is read and processed; ESC in the preview or
\* used >= --max-frames ends the loop
CaptureFrame ==
    /\ tool = "pipeline" /\ pc = "capture"
    /\ on_step_grid(frame_idx, args.frame_step)
    /\ \E bgr \in CaptureFrames, k \in {ESC, NoKey} :
          /\ process_frame(bgr, frame_idx)
          /\ used' = used + 1
          /\ key' = IF args.show THEN k ELSE key
          /\ IF stop_requested(args.show, k)
             THEN pc' = "finalize" /\ frame_idx' = frame_idx
             ELSE IF used + 1 >= args.max_frames
                  THEN pc' = "finalize" /\ frame_idx' = frame_idx
                  ELSE pc' = pc /\ frame_idx' = frame_idx + 1
    /\ UNCHANGED <<env_vars, camera_vars, outdir, batch_vars, source, image_list, result_vars, i>>

\* after acquisition: too few accepted frames, exit 2
TooFewFrames ==
    /\ tool = "pipeline" /\ pc = "finalize"
    /\ too_few_frames(accepted, args.min_frames)
    /\ message' = "too_few_frames"
    /\ exit_code' = 2
    /\ pc' = "exit"
    /\ UNCHANGED <<env_vars, camera_vars, outdir, batch_vars, source, image_list, frame_vars, i, frame_idx, used,
                   solver_calls, artifacts>>

\* variant: after the solver call main tests the frame count again
Calibrate_again ==
    /\ tool = "pipeline" /\ pc = "finalize"
    /\ ~too_few_frames(accepted, args.min_frames)
    /\ solver_calls' = Append(solver_calls,
            [charucoCorners |-> all_corners, charucoIds |-> all_ids, imageSize |-> imsize])
    /\ pc' = IF Len(solver_calls) >= 1 THEN "save" ELSE "finalize"
    /\ UNCHANGED <<env_vars, camera_vars, outdir, batch_vars, source, image_list, frame_vars, i, frame_idx, used,
                   exit_code, message, artifacts>>

\* after acquisition: enough frames, the solver is called
Calibrate ==
    /\ tool = "pipeline" /\ pc = "finalize"
    /\ ~too_few_frames(accepted, args.min_frames)
    /\ solver_calls' = Append(solver_calls,
            [charucoCorners |-> all_corners, charucoIds |-> all_ids, imageSize |-> imsize])
    /\ pc' = "save"
    /\ UNCHANGED <<env_vars, camera_vars, outdir, batch_vars, source, image_list, frame_vars, i, frame_idx, used,
                   exit_code, message, artifacts>>

\* after acquisition: enough frames, but this build of cv2.aruco has no
\* calibrateCameraCharucoExtended: the attribute lookup raises
\* AttributeError, nothing catches it, and the interpreter exits with 1
CalibrateFails ==
    /\ tool = "pipeline" /\ pc = "finalize"
    /\ ~too_few_frames(accepted, args.min_frames)
    /\ message' = "AttributeError"
    /\ exit_code' = 1
    /\ pc' = "exit"
    /\ UNCHANGED <<env_vars, camera_vars, outdir, batch_vars, source, image_list, frame_vars, i, frame_idx, used,
                   solver_calls, artifacts>>

\* the result bundle and, when imsize is set, the undistortion preview
SaveResults ==
    /\ tool = "pipeline" /\ pc = "save"
    /\ artifacts' = artifacts \cup {"charuco_calib.npz"}
                      \cup (IF imsize # NoSize THEN {"undistort_preview.jpg"} ELSE {})
    /\ \E t \in SaveTimes :
          outdir' = write_files(outdir, result_names(t, imsize # NoSize), 2)
    /\ exit_code' = 0
    /\ pc' = "exit"
    /\ UNCHANGED <<env_vars, camera_vars, batch_vars, source, image_list, frame_vars, i, frame_idx, used,
                   message, solver_calls>>

PipelineNext ==
    \/ OpenImages \/ OpenCapture \/ OpenCaptureFails \/ SourceNotRecognized
    \/ ImagesEnd \/ ImageUnreadable \/ ImageFrame
    \/ CaptureEnd \/ CaptureSkip \/ CaptureFrame
    \/ TooFewFrames \/ Calibrate \/ CalibrateFails \/ SaveResults

---------------------------------------------------------------------------
(* kalibracja1fotka.py: the batch evaluator *)

\* all corners lie inside a frame of the given size
InFrame(corners, size) ==
    \A j \in 1..Len(corners) :
        /\ 0 <= corners[j][1] /\ corners[j][1] <= size[1]
        /\ 0 <= corners[j][2] /\ corners[j][2] <= size[2]

\* decoded images of the batch directory, by what the detector finds:
\* nothing, a single point, a horizontal line, a vertical line, the whole
\* frame (4x2 and 4x4), half of the frame, a 1x1 box (6.25% of 4x4)
BatchFrames ==
    { Image(<<4, 2>>, <<>>),
      Image(<<4, 2>>, << <<1, 1>> >>),
      Image(<<4, 2>>, << <<0, 1>>, <<3, 1>> >>),
      Image(<<4, 2>>, << <<1, 0>>, <<1, 2>> >>),
      Image(<<4, 2>>, << <<0, 0>>, <<4, 2>> >>),
      Image(<<4, 4>>, << <<0, 0>>, <<4, 2>> >>),
      Image(<<4, 4>>, << <<4, 4>>, <<0, 0>>, <<1, 1>> >>),
      Image(<<4, 4>>, << <<1, 1>>, <<2, 2>>, <<2, 1>> >>) }

\* Files of the directory are numbered in path order: 1 a.jpg, 2 a.png,
\* 3 s/b.jpg, 4 s/b.png, 5 c.jpg, ...  Path(fp).stem and whether fp lies in
\* a subdirectory:
FileStem(fp) == (fp + 1) \div 2
FileInSubdir(fp) == ((fp - 1) \div 2) % 2 = 1

\* list_images(root, recursive)
list_images(entries, recursive) ==
    IF recursive THEN sorted(entries)
    ELSE sorted({fp \in entries : ~FileInSubdir(fp)})

\* variant: the box area is divided by W*W instead of W*H
area_frac_square(charucoCorners, W, H) ==
    LET n == Len(charucoCorners) IN
    IF n > 0
    THEN LET xs == {charucoCorners[j][1] : j \in 1..n}
             ys == {charucoCorners[j][2] : j \in 1..n}
         IN  <<(SetMax(xs) - SetMin(xs)) * (SetMax(ys) - SetMin(ys)), W * W>>
    ELSE <<0, 1>>

\* area_frac of eval_image as the fraction <<numerator, denominator>>
area_frac(charucoCorners, W, H) ==
    LET n == Len(charucoCorners) IN
    IF n > 0
    THEN LET xs == {charucoCorners[j][1] : j \in 1..n}
             ys == {charucoCorners[j][2] : j \in 1..n}
             x0 == SetMin(xs)
             x1 == SetMax(xs)
             y0 == SetMin(ys)
             y1 == SetMax(ys)
             bw == Max(0, x1 - x0)
             bh == Max(0, y1 - y0)
         IN  <<bw * bh, W * H>>
    ELSE <<0, 1>>

\* variant: the area criterion is dropped
eval_ok_count_only(n, area, min_corners, min_area_frac) == n >= min_corners

\* ok of eval_image; min_area_frac is given in percent
eval_ok(n, area, min_corners, min_area_frac) ==
    (n >= min_corners) /\ (area[1] * 100 >= min_area_frac * area[2])

\* round(area, 6), in millionths (round half to even)
round6(area) ==
    LET q == (area[1] * 1000000) \div area[2]
        r == (area[1] * 1000000) % area[2]
    IN  IF 2 * r > area[2] \/ (2 * r = area[2] /\ q % 2 = 1) THEN q + 1 ELSE q

\* variant: a file that cannot be read is reported as accepted
eval_image_unreadable_ok(bgr, path, min_corners, min_area_frac) ==
    IF bgr = NoFrame
    THEN [ok |-> TRUE, n |-> 0, area |-> <<0, 1>>, out_img |-> 0]
    ELSE LET H == bgr.shape[1]
             W == bgr.shape[2]
             n == Len(bgr.corners)
             a == area_frac(bgr.corners, W, H)
         IN  [ok |-> eval_ok(n, a, min_corners, min_area_frac),
              n |-> n, area |-> a, out_img |-> FileStem(path)]

\* eval_image: (ok, n, area_frac, out_img); out_img 0 stands for ""
eval_image(bgr, path, min_corners, min_area_frac) ==
    IF bgr = NoFrame
    THEN [ok |-> FALSE, n |-> 0, area |-> <<0, 1>>, out_img |-> 0]
    ELSE LET H == bgr.shape[1]
             W == bgr.shape[2]
             n == Len(bgr.corners)
             a == area_frac(bgr.corners, W, H)
         IN  [ok |-> eval_ok(n, a, min_corners, min_area_frac),
              n |-> n, area |-> a, out_img |-> FileStem(path)]

MinAreaOpts == {0, 8, 50}

BatchArgs ==
    [min_corners : MinCornersOpts, min_area_frac : MinAreaOpts, recursive : BOOLEAN]

InitBatch ==
    /\ tool = "batch"
    /\ args \in BatchArgs
    /\ source \in {"imgs", "nowhere"}
    /\ listing \in (IF SourceInfo[source].exists THEN SUBSET (1..MaxFiles) ELSE {{}})
    /\ openable = {}
    /\ pc = "start"
    /\ image_list = NoList
    /\ all_corners = <<>>
    /\ all_ids = <<>>
    /\ imsize = NoSize
    /\ accepted = 0
    /\ i = 0
    /\ frame_idx = 0
    /\ used = 0
    /\ status = -1
    /\ exit_code = -1
    /\ message = None
    /\ solver_calls = <<>>
    /\ artifacts = {}
    /\ cur = NoFrame
    /\ seen = <<>>
    /\ appended_sizes = <<>>
    /\ files = <<>>
    /\ total = 0
    /\ res = NoResult
    /\ rows = <<>>
    /\ overlays = {}
    /\ summary = <<>>
    /\ key = NoKey
    /\ argv_source = source
    /\ earlier = NoRun
    /\ outdir = {}
    /\ image_count = 0
    /\ image_size = NoSize
    /\ ret = TRUE
    /\ detected = NoDetection
    /\ returned = Running

pipeline_vars == <<source, image_list, all_corners, all_ids, imsize, i, frame_idx,
                   used, status, solver_calls, artifacts, appended_sizes, key>>

\* --dir does not exist: exit 1
BatchNoDirectory ==
    /\ tool = "batch" /\ pc = "start"
    /\ ~SourceInfo[source].exists
    /\ message' = "no_directory"
    /\ exit_code' = 1
    /\ pc' = "exit"
    /\ UNCHANGED <<env_vars, camera_vars, outdir, pipeline_vars, batch_vars, accepted, cur, seen>>

\* no image file listed: exit 2
BatchNoImages ==
    /\ tool = "batch" /\ pc = "start"
    /\ SourceInfo[source].exists
    /\ list_images(listing, args.recursive) = <<>>
    /\ message' = "no_images"
    /\ exit_code' = 2
    /\ pc' = "exit"
    /\ UNCHANGED <<env_vars, camera_vars, outdir, pipeline_vars, batch_vars, accepted, cur, seen>>

\* the files are listed and the loop starts
BatchList ==
    /\ tool = "batch" /\ pc = "start"
    /\ SourceInfo[source].exists
    /\ list_images(listing, args.recursive) # <<>>
    /\ files' = list_images(listing, args.recursive)
    /\ pc' = "eval"
    /\ UNCHANGED <<env_vars, camera_vars, outdir, pipeline_vars, total, res, rows, overlays, summary,
                   earlier, accepted, cur, seen, exit_code, message>>

\* one iteration of the loop over files: the image is read (or not),
\* evaluated, its overlay written, and its row recorded.  In a second run
\* every file holds what it held in the first, and the detector finds in
\* it what it found then.
EvalFile ==
    /\ tool = "batch" /\ pc = "eval"
    /\ total < Len(files)
    /\ \E bgr \in BatchFrames \cup {NoFrame} :
          LET fp == files[total + 1]
              r  == eval_image(bgr, fp, args.min_corners, args.min_area_frac)
          IN  /\ earlier.exit_code # -1 => bgr = earlier.seen[total + 1].frame
              /\ total' = total + 1
              /\ res' = r
              /\ accepted' = IF r.ok THEN accepted + 1 ELSE accepted
              /\ rows' = Append(rows, [file |-> fp, accepted |-> r.ok, corners |-> r.n,
                                       area_frac |-> round6(r.area), debug_image |-> r.out_img])
              /\ overlays' = IF bgr = NoFrame THEN overlays
                             ELSE {o \in overlays : o[1] # r.out_img} \cup {<<r.out_img, fp>>}
              /\ cur' = bgr
              /\ seen' = Append(seen, [pos |-> fp, frame |-> bgr])
    /\ UNCHANGED <<env_vars, camera_vars, outdir, pipeline_vars, files, summary, earlier, pc, exit_code, message>>

\* after the loop: the summary is printed
BatchSummary ==
    /\ tool = "batch" /\ pc = "eval"
    /\ total >= Len(files)
    /\ summary' = [total |-> total, accepted |-> accepted, rejected |-> total - accepted]
    /\ exit_code' = 0
    /\ pc' = "exit"
    /\ UNCHANGED <<env_vars, camera_vars, outdir, pipeline_vars, files, total, res, rows, overlays,
                   earlier, accepted, cur, seen, message>>

\* variant: the second run goes on counting from the accepted count of the
\* first
BatchRerun_keep_count ==
    /\ tool = "batch" /\ pc = "exit"
    /\ earlier.exit_code = -1
    /\ earlier' = [rows |-> rows, summary |-> summary, seen |-> seen,
                   exit_code |-> exit_code]
    /\ pc' = "start"
    /\ files' = <<>>
    /\ total' = 0
    /\ accepted' = accepted
    /\ rows' = <<>>
    /\ res' = NoResult
    /\ summary' = <<>>
    /\ cur' = NoFrame
    /\ seen' = <<>>
    /\ exit_code' = -1
    /\ message' = None
    /\ UNCHANGED <<env_vars, camera_vars, outdir, pipeline_vars, overlays>>

\* the evaluator is started a second time with the same command line on
\* the same directory: main starts from total, accepted = 0, 0 and empty
\* rows; outdir still holds the overlays of the first run
BatchRerun ==
    /\ tool = "batch" /\ pc = "exit"
    /\ earlier.exit_code = -1
    /\ earlier' = [rows |-> rows, summary |-> summary, seen |-> seen,
                   exit_code |-> exit_code]
    /\ pc' = "start"
    /\ files' = <<>>
    /\ total' = 0
    /\ accepted' = 0
    /\ rows' = <<>>
    /\ res' = NoResult
    /\ summary' = <<>>
    /\ cur' = NoFrame
    /\ seen' = <<>>
    /\ exit_code' = -1
    /\ message' = None
    /\ UNCHANGED <<env_vars, camera_vars, outdir, pipeline_vars, overlays>>

BatchNext ==
    \/ BatchNoDirectory \/ BatchNoImages \/ BatchList \/ EvalFile \/ BatchSummary
    \/ BatchRerun

---------------------------------------------------------------------------
---------------------------------------------------------------------------
(* camera_calibration.py: calibrate_camera_with_aruco *)

\* markers detectMarkers finds in a frame: none, too few, just enough, more
MarkerCounts == {0, MinMarkers - 1, MinMarkers, MinMarkers + 1}

\* corners and ids of a frame with n markers; ids is None when n = 0
Detection(n) ==
    [corners |-> [j \in 1..n |-> <<j, j>>],
     ids |-> IF n = 0 THEN NoIds ELSE [j \in 1..n |-> j]]

Detections == {Detection(n) : n \in MarkerCounts}

\* variant: three markers are enough for a view
enough_markers_three(ids) == ids # NoIds /\ Len(ids) >= MinMarkers - 1

\* ids is not None and len(ids) >= 4
enough_markers(ids) == ids # NoIds /\ Len(ids) >= MinMarkers

\* variant: four views are enough for the solver
too_few_views_four(n) == n < MinCalibrationViews - 1

\* len(all_corners) < 5
too_few_views(n) == n < MinCalibrationViews

NumImagesOpts == {0, MinCalibrationViews - 1, MinCalibrationViews, MaxImages}

CameraArgs == [camera_id : {0, 7}, num_images : NumImagesOpts]

InitCamera ==
    /\ tool = "camera"
    /\ args \in CameraArgs
    /\ source = ""
    /\ listing = {}
    /\ openable \in SUBSET {CameraDevice(args.camera_id)}
    /\ pc = "open"
    /\ image_list = NoList
    /\ all_corners = <<>>
    /\ all_ids = <<>>
    /\ imsize = NoSize
    /\ accepted = 0
    /\ i = 0
    /\ frame_idx = 0
    /\ used = 0
    /\ status = -1
    /\ exit_code = -1
    /\ message = None
    /\ solver_calls = <<>>
    /\ artifacts = {}
    /\ cur = NoFrame
    /\ seen = <<>>
    /\ appended_sizes = <<>>
    /\ files = <<>>
    /\ total = 0
    /\ res = NoResult
    /\ rows = <<>>
    /\ overlays = {}
    /\ summary = <<>>
    /\ key = NoKey
    /\ argv_source = ""
    /\ earlier = NoRun
    /\ outdir = {}
    /\ image_count = 0
    /\ image_size = NoSize
    /\ ret = TRUE
    /\ detected = NoDetection
    /\ returned = Running

\* variables calibrate_camera_with_aruco never writes
not_camera_vars == <<source, image_list, imsize, accepted, i, frame_idx, used, status,
                     exit_code, message, cur, seen, appended_sizes, outdir>>

\* cv2.VideoCapture(camera_id) does not open: return None
CameraNotOpened ==
    /\ tool = "camera" /\ pc = "open"
    /\ CameraDevice(args.camera_id) \notin openable
    /\ returned' = None
    /\ pc' = "return"
    /\ UNCHANGED <<env_vars, batch_vars, not_camera_vars, all_corners, all_ids, key,
                   solver_calls, artifacts, image_count, image_size, ret, detected>>

\* the camera opens; the lists are empty and image_count is 0
CameraOpened ==
    /\ tool = "camera" /\ pc = "open"
    /\ CameraDevice(args.camera_id) \in openable
    /\ pc' = "loop"
    /\ UNCHANGED <<env_vars, batch_vars, not_camera_vars, camera_vars, all_corners, all_ids,
                   key, solver_calls, artifacts>>

\* while image_count < num_images: the condition fails, cap.release()
CameraLoopDone ==
    /\ tool = "camera" /\ pc = "loop"
    /\ ~(image_count < args.num_images)
    /\ pc' = "release"
    /\ UNCHANGED <<env_vars, batch_vars, not_camera_vars, camera_vars, all_corners, all_ids,
                   key, solver_calls, artifacts>>

\* cap.read() fails: break
CameraReadFails ==
    /\ tool = "camera" /\ pc = "loop"
    /\ image_count < args.num_images
    /\ ret' = FALSE
    /\ pc' = "release"
    /\ UNCHANGED <<env_vars, batch_vars, not_camera_vars, all_corners, all_ids, key,
                   solver_calls, artifacts, image_count, image_size, detected, returned>>

\* one iteration with a frame: detection, preview, key.  SPACE with enough
\* markers stores the view, ESC ends the loop; a camera delivers one
\* resolution
CameraFrame ==
    /\ tool = "camera" /\ pc = "loop"
    /\ image_count < args.num_images
    /\ \E sz \in Sizes, d \in Detections, k \in {SPACE, ESC, NoKey} :
          /\ image_size # NoSize => sz = image_size
          /\ ret' = TRUE
          /\ image_size' = IF image_size = NoSize THEN sz ELSE image_size
          /\ detected' = d
          /\ key' = k
          /\ IF k = SPACE /\ enough_markers(d.ids)
             THEN /\ all_corners' = Append(all_corners, d.corners)
                  /\ all_ids' = Append(all_ids, d.ids)
                  /\ image_count' = image_count + 1
             ELSE UNCHANGED <<all_corners, all_ids, image_count>>
          /\ pc' = IF k = ESC THEN "release" ELSE "loop"
    /\ UNCHANGED <<env_vars, batch_vars, not_camera_vars, solver_calls, artifacts, returned>>

\* fewer than 5 views: return None
TooFewViews ==
    /\ tool = "camera" /\ pc = "release"
    /\ too_few_views(Len(all_corners))
    /\ returned' = None
    /\ pc' = "return"
    /\ UNCHANGED <<env_vars, batch_vars, not_camera_vars, all_corners, all_ids, key,
                   solver_calls, artifacts, image_count, image_size, ret, detected>>

\* cv2.calibrateCamera is called with the points of every stored view; a
\* true ret saves camera_calibration.json and .xml and returns the data, a
\* false one returns None
CalibrateCamera ==
    /\ tool = "camera" /\ pc = "release"
    /\ ~too_few_views(Len(all_corners))
    /\ solver_calls' = Append(solver_calls,
            [img_points |-> all_corners, image_size |-> image_size])
    /\ \E ok \in BOOLEAN :
          /\ ret' = ok
          /\ artifacts' = IF ok THEN {"camera_calibration.json", "camera_calibration.xml"}
                          ELSE artifacts
          /\ returned' = IF ok THEN "calibration_data" ELSE None
    /\ pc' = "return"
    /\ UNCHANGED <<env_vars, batch_vars, not_camera_vars, all_corners, all_ids, key,
                   image_count, image_size, detected>>

CameraNext ==
    \/ CameraNotOpened \/ CameraOpened \/ CameraLoopDone \/ CameraReadFails
    \/ CameraFrame \/ TooFewViews \/ CalibrateCamera

---------------------------------------------------------------------------

Init == InitPipeline \/ InitBatch \/ InitCamera
Next == PipelineNext \/ BatchNext \/ CameraNext
Spec == Init /\ [][Next]_vars

\* the interpreter keeps running the program: a run that can take a step
\* takes one
FairSpec == Spec /\ WF_vars(Next)

---------------------------------------------------------------------------
(* Properties *)

\* a frame was handed to the gate (pipeline: process_frame ran; batch: the
\* last image was readable and evaluated)
Gated == cur # NoFrame

\* the bounding-box area of the corners of frame f times 100 is at least
\* pct times the frame area
CoversAtLeast(f, pct) ==
    LET c == f.corners
        P == 1..Len(c)
    IN  /\ P # {}
        /\ \E a, b, d, e \in P :
              /\ \A j \in P : c[a][1] <= c[j][1] /\ c[j][1] <= c[b][1]
              /\ \A j \in P : c[d][2] <= c[j][2] /\ c[j][2] <= c[e][2]
              /\ (c[b][1] - c[a][1]) * (c[e][2] - c[d][2]) * 100
                    >= pct * (f.shape[1] * f.shape[2])

\* frame f passes the two criteria of the batch evaluator
PassesBoth(f) ==
    /\ Len(f.corners) >= args.min_corners
    /\ (args.min_area_frac <= 0 \/ CoversAtLeast(f, args.min_area_frac))

\* C1: the gate rejects a frame with fewer than minCorners corners and
\* accepts one with at least minCorners corners, in the batch evaluator
\* only if the bounding-box area fraction also reaches minAreaFraction;
\* the decision depends on nothing else.
C1_GateDecision ==
    /\ (tool = "pipeline" /\ Gated) =>
          /\ Len(cur.corners) <  args.min_corners => status = 0
          /\ Len(cur.corners) >= args.min_corners => status = 1
    /\ (tool = "batch" /\ Gated) =>
          /\ Len(cur.corners) < args.min_corners => ~res.ok
          /\ res.ok <=> PassesBoth(cur)

\* C1 witness: a batch image with enough corners that is rejected because
\* its corners cover too little of the frame
C1_Witness ==
    /\ tool = "batch" /\ Gated
    /\ Len(cur.corners) >= args.min_corners
    /\ Len(cur.corners) > 0
    /\ ~res.ok

\* the run ended after acquisition, and not by a failure of the environment
\* (a source that does not open, a cv2 build without the solver entry point)
AcquisitionEnded == tool = "pipeline" /\ pc = "exit" /\ exit_code # 1

\* the run failed with "too few good frames"
InsufficientFrames == pc = "exit" /\ exit_code = 2 /\ message = "too_few_frames"

\* C2 as stated: finalizing fails with InsufficientFrames exactly when fewer
\* than minFrames frames were accepted.
C2_Original ==
    AcquisitionEnded => (InsufficientFrames <=> accepted < args.min_frames)

\* C2 amended: finalizing fails with InsufficientFrames exactly when the
\* number of accepted frames is below minFrames or below 4, and calibration
\* proceeds otherwise.
C2_InsufficientBelowFloor ==
    AcquisitionEnded =>
        /\ InsufficientFrames <=> (accepted < args.min_frames \/ accepted < 4)
        /\ ~InsufficientFrames => (exit_code = 0 /\ Len(solver_calls) = 1)

\* C2 witness: a run that accepted at least minFrames frames and still
\* failed with InsufficientFrames
C2_Witness ==
    /\ AcquisitionEnded /\ InsufficientFrames
    /\ accepted >= args.min_frames

\* two frames appended to the dataset, each with detected corners, differ
\* in image size
MixedSizes ==
    \E j, k \in 1..Len(appended_sizes) :
        /\ appended_sizes[j] # appended_sizes[k]
        /\ Len(all_corners[j]) > 0 /\ Len(all_corners[k]) > 0

\* C3: when two frames presented to the accumulator differ in image size
\* the second append fails with ImageSizeMismatch, and the run never
\* reaches calibration with frames of mixed resolution.
C3_ImageSizeMismatch ==
    (tool = "pipeline" /\ MixedSizes) =>
        /\ pc = "exit" /\ exit_code > 0 /\ message = "image_size_mismatch"
        /\ solver_calls = <<>>

\* C4: once a frame has been accepted, the recorded imageSize, and the one
\* passed to the solver, is the size of the first accepted frame.
C4_ImsizeOfFirstAccepted ==
    (tool = "pipeline" /\ Len(appended_sizes) >= 1) =>
        /\ imsize = appended_sizes[1]
        /\ \A c \in 1..Len(solver_calls) : solver_calls[c].imageSize = appended_sizes[1]

\* C5: for every setting of the thresholds a frame with zero detected
\* corners has cornerCount 0 and area fraction 0 and is rejected: it is
\* not counted as accepted and not appended to the dataset.
C5_ZeroCornersRejected ==
    /\ (tool = "pipeline" /\ Gated /\ Len(cur.corners) = 0) => status = 0
    /\ tool = "pipeline" => \A j \in 1..Len(all_corners) : Len(all_corners[j]) > 0
    /\ (tool = "batch" /\ Gated /\ Len(cur.corners) = 0) =>
          (res.n = 0 /\ res.area[1] = 0 /\ ~res.ok)

\* the corners of frame f all have the same x or all the same y
Degenerate(f) ==
    \/ \A j, k \in 1..Len(f.corners) : f.corners[j][1] = f.corners[k][1]
    \/ \A j, k \in 1..Len(f.corners) : f.corners[j][2] = f.corners[k][2]

\* the bounding box of the corners of frame f is the frame rectangle
FillsFrame(f) ==
    /\ \E j \in 1..Len(f.corners) : f.corners[j][1] = 0
    /\ \E j \in 1..Len(f.corners) : f.corners[j][1] = f.shape[2]
    /\ \E j \in 1..Len(f.corners) : f.corners[j][2] = 0
    /\ \E j \in 1..Len(f.corners) : f.corners[j][2] = f.shape[1]
    /\ InFrame(f.corners, <<f.shape[2], f.shape[1]>>)

\* C6: the area fraction is (maxX - minX) * (maxY - minY) / (W * H) over the
\* detected corners: 1 when the bounding box is the frame rectangle, 0 for
\* zero corners and for a degenerate box, and within [0, 1] when all
\* corners lie inside the frame.
C6_AreaFraction ==
    (tool = "batch" /\ Gated) =>
        LET c   == cur.corners
            P   == 1..Len(c)
            W   == cur.shape[2]
            H   == cur.shape[1]
            num == res.area[1]
            den == res.area[2]
        IN  /\ den > 0
            /\ P = {} => num = 0
            /\ P # {} =>
                  \E a, b, d, e \in P :
                      /\ \A j \in P : c[a][1] <= c[j][1] /\ c[j][1] <= c[b][1]
                      /\ \A j \in P : c[d][2] <= c[j][2] /\ c[j][2] <= c[e][2]
                      /\ num * (W * H) = (c[b][1] - c[a][1]) * (c[e][2] - c[d][2]) * den
            /\ FillsFrame(cur) => num = den
            /\ Degenerate(cur) => num = 0
            /\ InFrame(c, <<W, H>>) => (0 <= num /\ num <= den)

\* C6 witness: an evaluated image whose corners span the whole 4x2 frame
C6_Witness ==
    /\ tool = "batch" /\ Gated
    /\ FillsFrame(cur)
    /\ cur.shape[1] # cur.shape[2]
    /\ res.area[1] = res.area[2]

\* the processed frames the gate accepts, in source order
PassesGate(e) == Len(e.corners) >= args.min_corners
AcceptedLog == SelectSeq(seen, PassesGate)

\* the solver was called once, with exactly the accepted frames' corners and
\* ids in source order
SolverGotAccepted ==
    /\ Len(solver_calls) = 1
    /\ solver_calls[1].charucoCorners = [j \in 1..Len(AcceptedLog) |-> AcceptedLog[j].corners]
    /\ solver_calls[1].charucoIds = [j \in 1..Len(AcceptedLog) |-> IdsOf(AcceptedLog[j].corners)]
    /\ \A j, k \in 1..Len(seen) : j < k => seen[j].pos < seen[k].pos

C8_TooFewNoSolver ==
    (tool = "pipeline" /\ pc \in {"finalize", "save", "exit"} /\ exit_code # 1
       /\ Len(AcceptedLog) < args.min_frames) =>
        /\ solver_calls = <<>>
        /\ artifacts = {}
        /\ pc # "save"
        /\ pc = "exit" => (InsufficientFrames /\ exit_code # 0)

\* C8 witness: a run with four accepted frames, fewer than minFrames, that
\* failed with InsufficientFrames
C8_Witness ==
    /\ AcquisitionEnded /\ InsufficientFrames
    /\ accepted >= 4 /\ accepted < args.min_frames
    /\ solver_calls = <<>> /\ artifacts = {}

\* the image files list_images reports
ListedFiles == {fp \in listing : args.recursive \/ ~FileInSubdir(fp)}

\* positions of the evaluated images that are readable and pass both criteria
PassingImages ==
    {j \in 1..Len(seen) : seen[j].frame # NoFrame /\ PassesBoth(seen[j].frame)}

\* C9: after the batch evaluator processed a directory, total is the
\* number of image files listed, accepted the number of those that pass
\* both criteria, and rejected = total - accepted.
C9_Summary ==
    (tool = "batch" /\ pc = "exit" /\ exit_code = 0) =>
        /\ summary.total = Cardinality(ListedFiles)
        /\ Len(seen) = summary.total
        /\ summary.accepted = Cardinality(PassingImages)
        /\ summary.rejected = summary.total - summary.accepted

\* C9 witness: three images under minCorners 2 and minAreaFraction 8%: one
\* accepted, one with enough corners on too small an area, one with too few
\* corners; the summary is total 3, accepted 1, rejected 2
C9_Witness ==
    /\ tool = "batch" /\ pc = "exit" /\ exit_code = 0
    /\ args.min_corners = 2 /\ args.min_area_frac = 8
    /\ summary = [total |-> 3, accepted |-> 1, rejected |-> 2]
    /\ \E j \in 1..Len(seen) :
          /\ seen[j].frame # NoFrame
          /\ Len(seen[j].frame.corners) >= 2
          /\ ~CoversAtLeast(seen[j].frame, 8)
          /\ ~Degenerate(seen[j].frame)
    /\ \E j \in 1..Len(seen) :
          /\ seen[j].frame # NoFrame
          /\ Len(seen[j].frame.corners) = 1

\* the run failed at opening the source
SourceUnavailable ==
    pc = "exit" /\ exit_code = 1 /\ message \in {"not_opened", "not_recognized"}

\* the source names a camera that cannot be opened, a path that does not
\* exist, or a directory or glob without files
UnavailableSource ==
    \/ SourceInfo[source].isInt /\ NamedDevice(source) \notin openable
    \/ ~SourceInfo[source].isInt /\ ~SourceInfo[source].hasGlob /\ ~SourceInfo[source].exists
    \/ ListedSource(source) /\ listing = {}

\* C10: for a camera index that cannot be opened, a path that does not
\* exist, or a directory or glob matching zero files, no frame is processed
\* and the run fails with SourceUnavailable, not with InsufficientFrames.
C10_SourceUnavailable ==
    (tool = "pipeline" /\ pc # "start" /\ UnavailableSource) =>
        /\ seen = <<>>
        /\ SourceUnavailable
        /\ ~InsufficientFrames

\* C11: for every value of the frame cap (--max-frames) the number of
\* frames passed to detection in one run of video/camera mode never exceeds
\* the cap, and neither does the number of images processed in still-image
\* mode.
C11_FrameCap ==
    tool = "pipeline" => Len(seen) <= args.max_frames

\* the run is past the choice of the mode, in camera/video mode
CaptureMode == tool = "pipeline" /\ pc # "start" /\ image_list = NoList

\* the run is past the choice of the mode, in still-image mode
StillMode == tool = "pipeline" /\ pc # "start" /\ image_list # NoList

\* the dataset holds exactly the processed frames that pass the gate, in
\* the order in which they were processed
DatasetIsAcceptedLog ==
    /\ accepted = Len(AcceptedLog)
    /\ all_corners = [j \in 1..Len(AcceptedLog) |-> AcceptedLog[j].corners]
    /\ all_ids = [j \in 1..Len(AcceptedLog) |-> IdsOf(AcceptedLog[j].corners)]

\* C12: in video/camera mode with frame step N the frames passed to
\* detection are exactly the frames at the zero-based stream positions
\* 0, N, 2N, ..., in stream order, up to the frame at which the loop ended;
\* a frame at any other position is read and dropped: it is not detected,
\* gated or accumulated.
C12_FrameStep ==
    CaptureMode =>
        /\ \A j \in 1..Len(seen) : seen[j].pos = (j - 1) * args.frame_step
        /\ \A j \in 1..Len(seen) : seen[j].pos <= frame_idx
        /\ \A p \in 0..(frame_idx - 1) :
              (p % args.frame_step = 0) <=> (\E j \in 1..Len(seen) : seen[j].pos = p)
        /\ used = Len(seen)
        /\ DatasetIsAcceptedLog

\* C12 witness: a capture with frame step 2 from which the frames at
\* positions 0 and 2 were processed and accepted, the frame at position 1
\* having been read and dropped
C12_Witness ==
    /\ CaptureMode
    /\ args.frame_step = 2
    /\ Len(seen) = 2 /\ seen[2].pos = 2
    /\ frame_idx >= 2
    /\ accepted = 2

\* the file of the image list that was processed as frame j
FileOf(j) == image_list[seen[j].pos + 1]

\* a step of the still-image loop that passes a file over without
\* processing it
SkipsFile == pc = "images" /\ i' = i + 1 /\ seen' = seen

\* C13: in still-image mode the files are processed in the order of their
\* paths; a file that cannot be read is passed over: it is not gated, the
\* dataset and the accepted count stay as they are, the run is not ended,
\* and the loop goes on to the files after it (up to --max-frames or the
\* stop key).
C13_UnreadableSkipped ==
    /\ [](StillMode =>
            /\ \A j \in 1..Len(seen) : seen[j].pos < Len(image_list)
            /\ \A j, k \in 1..Len(seen) : j < k => FileOf(j) < FileOf(k)
            /\ (pc \in {"finalize", "save", "exit"} /\ key # ESC) =>
                  (i >= Len(image_list) \/ i >= args.max_frames))
    /\ [][SkipsFile =>
            /\ UNCHANGED <<all_corners, all_ids, accepted, status, imsize, cur>>
            /\ pc' = "images"
            /\ exit_code' = -1]_vars

\* C13 witness: a finished run over three files in which the second could
\* not be read and the first and the third were processed
C13_Witness ==
    /\ StillMode /\ pc = "exit"
    /\ Len(image_list) = 3
    /\ Len(seen) = 2
    /\ seen[1].pos = 0 /\ seen[2].pos = 2

\* the preview read the stop key
StopPressed == tool = "pipeline" /\ key = ESC

\* the run calibrated: one solver call with the dataset as it stands, and
\* the results written
CalibratedWithDataset ==
    /\ exit_code = 0
    /\ Len(solver_calls) = 1
    /\ solver_calls[1].charucoCorners = all_corners
    /\ solver_calls[1].charucoIds = all_ids

ProcessesRejected ==
    /\ tool = "pipeline"
    /\ seen' # seen
    /\ Len(cur'.corners) < args.min_corners

\* C15: a frame the gate rejects (fewer corners than minCorners, zero
\* corners among them) is not an error: processing it leaves the corner
\* list, the id list and the accepted count as they were, raises no
\* failure, and the loop goes on to the next frame unless the stop key or
\* the frame cap ends it.
C15_RejectNotError ==
    [][ProcessesRejected =>
          /\ UNCHANGED <<all_corners, all_ids, accepted>>
          /\ status' = 0
          /\ exit_code' = -1 /\ message' = message
          /\ pc' # pc =>
                /\ pc' = "finalize"
                /\ \/ args.show /\ key' = ESC
                   \/ pc = "capture" /\ used' >= args.max_frames]_vars

\* C15 witness: an accepted frame, then a rejected frame with one corner,
\* then another accepted frame, the run still going
C15_Witness ==
    /\ tool = "pipeline" /\ pc \in {"images", "capture"}
    /\ exit_code = -1
    /\ args.min_corners = 2
    /\ Len(seen) = 3
    /\ Len(seen[1].corners) = 2 /\ Len(seen[2].corners) = 1 /\ Len(seen[3].corners) = 2
    /\ accepted = 2 /\ Len(all_corners) = 2

\* sequence a is an initial part of sequence b
IsPrefix(a, b) == Len(a) <= Len(b) /\ SubSeq(b, 1, Len(a)) = a

\* C16: during a pipeline run the dataset only grows: accepted frames are
\* never removed or replaced, and the corner list, the id list and the
\* accepted counter always have the same length; the dataset is finalized
\* once (every run that got past opening its source ends through the one
\* test of the frame count, and nothing changes the dataset after it), and
\* at most one calibration result is produced.
C16_DatasetMonotone ==
    /\ [](tool = "pipeline" =>
            /\ Len(all_corners) = accepted /\ Len(all_ids) = accepted
            /\ (pc = "exit" /\ ~SourceUnavailable) =>
                  \/ InsufficientFrames /\ solver_calls = <<>>
                  \/ exit_code = 0 /\ Len(solver_calls) = 1
                  \/ message = "AttributeError" /\ solver_calls = <<>>
            /\ Len(solver_calls) <= 1
            /\ solver_calls # <<>> => pc \in {"save", "exit"}
            /\ artifacts # {} => (Len(solver_calls) = 1 /\ pc = "exit"))
    /\ [][tool = "pipeline" =>
            /\ IsPrefix(all_corners, all_corners')
            /\ IsPrefix(all_ids, all_ids')
            /\ accepted' >= accepted
            /\ pc = "finalize" => pc' \in {"save", "exit"}
            /\ pc = "save" => pc' = "exit"
            /\ pc \in {"finalize", "save", "exit"} =>
                  UNCHANGED <<all_corners, all_ids, accepted, imsize>>
            /\ solver_calls # <<>> => solver_calls' = solver_calls]_vars

\* C16 witness: a run that rejected a frame, accepted two, and was
\* finalized (here with too few frames) with the dataset as accumulated
C16_Witness ==
    /\ tool = "pipeline" /\ pc = "exit"
    /\ Len(seen) = 3 /\ accepted = 2
    /\ Len(all_corners) = 2 /\ Len(all_ids) = 2
    /\ all_corners[1] # <<>>
    /\ solver_calls = <<>>

\* C17: the batch evaluator writes one overlay per input image: for every
\* set of input files (recursive listings and files that differ only in
\* directory or extension included) each evaluated input has its own
\* overlay file, and no overlay of one input is overwritten by the overlay
\* of another.
C17_OverlayPerInput ==
    tool = "batch" =>
        \A j \in 1..Len(seen) :
            seen[j].frame # NoFrame =>
                <<FileStem(seen[j].pos), seen[j].pos>> \in overlays

\* this is the second run of the evaluator on the directory, and it ended
SecondRunEnded == tool = "batch" /\ pc = "exit" /\ earlier.exit_code # -1

C19_ReducedDiagnosticsFallback ==
    (tool = "pipeline" /\ pc = "exit" /\ ~too_few_frames(accepted, args.min_frames)) =>
        /\ exit_code = 0
        /\ "charuco_calib.npz" \in artifacts

\* the source as the path correction receives it: the default of an empty
\* --source already applied
SourceBeforeCorrection == IF argv_source = "" THEN "0" ELSE argv_source

\* C20: on open the source path is replaced by its corrected variant (the
\* space before the extension removed) exactly when the literal path does
\* not exist and the corrected path does; in every other case (the literal
\* path exists, it has no " ." in it, or the corrected path does not exist
\* either) the source is left as it was.
C20_PathCorrection ==
    (tool = "pipeline" /\ pc # "start") =>
        LET s0 == SourceBeforeCorrection
            corrected == SourceInfo[s0].fix
        IN  IF /\ ~SourceInfo[s0].exists
               /\ corrected # s0
               /\ SourceInfo[corrected].exists
            THEN source = corrected /\ source # s0
            ELSE source = s0

\* C20 witness: the missing "clip .MOV" was replaced by the existing
\* "clip.MOV"
C20_Witness ==
    /\ tool = "pipeline" /\ pc # "start"
    /\ argv_source = "clip .MOV"
    /\ source = "clip.MOV"

\* names of the files of outdir that this run (run 2) wrote
NamesOfThisRun == {f.name : f \in {g \in outdir : g.run = 2}}

\* C21: result file names are timestamp-qualified so that a run never
\* overwrites the results of a prior run: when a second pipeline run has
\* completed on the same output directory, the names of its bundle and
\* preview differ from those of the first run, whose files are still there.
C21_NoOverwrite ==
    (tool = "pipeline" /\ pc = "exit" /\ exit_code = 0) =>
        /\ NamesOfThisRun \cap result_names(0, TRUE) = {}
        /\ PriorResults \subseteq outdir

\* C22: when the source is a camera index n, the device the pipeline opens
\* is the device with index n, and the source failure is reported exactly
\* when that device cannot be opened.
C22_OpensNamedCamera ==
    (tool = "pipeline" /\ pc # "start" /\ is_camera_index(source)) =>
        /\ capture_target(source) = NamedDevice(source)
        /\ (message = "not_opened") <=> (NamedDevice(source) \notin openable)

\* positions of the files of this batch run that could not be read
UnreadableFiles == {j \in 1..Len(seen) : seen[j].frame = NoFrame}

\* C24: in the batch evaluator a file that cannot be read does not abort
\* the batch but is still counted: it increments total, its row says not
\* accepted, 0 corners, area fraction 0 and an empty overlay path, so it is
\* part of the rejected count total - accepted, and the evaluation goes on
\* to the next file until every listed file has its row.
C24_UnreadableCounted ==
    /\ tool = "batch" =>
          /\ total = Len(seen) /\ Len(rows) = total
          /\ accepted = Cardinality({j \in 1..Len(rows) : rows[j].accepted})
          /\ \A j \in UnreadableFiles :
                rows[j] = [file |-> files[j], accepted |-> FALSE, corners |-> 0,
                           area_frac |-> 0, debug_image |-> 0]
          /\ (pc = "eval" /\ UnreadableFiles # {}) => exit_code = -1
          /\ (pc = "exit" /\ rows # <<>>) =>
                /\ exit_code = 0
                /\ total = Len(files)
                /\ summary.total = total
                /\ summary.rejected = total - accepted
                /\ summary.rejected >= Cardinality(UnreadableFiles)
    /\ [][(tool = "batch" /\ pc = "eval" /\ total' = total + 1 /\ cur' = NoFrame) =>
            /\ pc' = "eval" /\ exit_code' = -1
            /\ accepted' = accepted
            /\ overlays' = overlays]_vars

\* C24 witness: a finished batch in which a file that could not be read is
\* followed by a file that was evaluated and accepted
C24_Witness ==
    /\ tool = "batch" /\ pc = "exit" /\ exit_code = 0
    /\ \E j \in UnreadableFiles :
          /\ j < Len(seen)
          /\ seen[j + 1].frame # NoFrame
          /\ rows[j + 1].accepted

\* C25: in the capture loop of calibrate_camera_with_aruco a view is stored
\* only in an iteration in which SPACE is pressed and at least 4 markers are
\* detected in the current frame; in every reachable state image_count
\* equals the number of stored views and of stored id sets and is at most
\* num_images; and the loop ends only when image_count has reached
\* num_images, ESC is pressed, or a camera read fails.
C25_CaptureLoop ==
    /\ [](tool = "camera" =>
            /\ image_count = Len(all_corners)
            /\ image_count = Len(all_ids)
            /\ image_count <= args.num_images)
    /\ [][(tool = "camera" /\ (all_corners' # all_corners \/ all_ids' # all_ids)) =>
            /\ pc = "loop"
            /\ key' = SPACE
            /\ detected'.ids # NoIds /\ Len(detected'.ids) >= MinMarkers
            /\ all_corners' = Append(all_corners, detected'.corners)
            /\ all_ids' = Append(all_ids, detected'.ids)]_vars
    /\ [][(tool = "camera" /\ pc = "loop" /\ pc' # "loop") =>
            \/ image_count' >= args.num_images
            \/ key' = ESC
            \/ ~ret']_vars

\* C25 witness: the second view was just stored, on SPACE with exactly 4
\* markers in the frame, and the loop goes on
C25_Witness ==
    /\ tool = "camera" /\ pc = "loop"
    /\ image_count = 2 /\ image_count < args.num_images
    /\ key = SPACE
    /\ Len(detected.ids) = MinMarkers
    /\ all_ids[image_count] = detected.ids

\* C26: calibrate_camera_with_aruco returns None without calling the
\* solver and without writing a result file whenever fewer than 5 views
\* were captured, the camera that cannot be opened included; so for every
\* num_images < 5 no keys and frames lead to a calibration result.
C26_TooFewViewsNone ==
    tool = "camera" =>
        /\ Len(all_corners) < MinCalibrationViews =>
              /\ solver_calls = <<>>
              /\ artifacts = {}
              /\ pc = "return" => returned = None
        /\ (pc # "open" /\ CameraDevice(args.camera_id) \notin openable) =>
              /\ pc = "return" /\ returned = None
              /\ all_corners = <<>>
        /\ args.num_images < MinCalibrationViews =>
              /\ returned # "calibration_data"
              /\ solver_calls = <<>>
              /\ artifacts = {}

\* C26 witness: the loop was left with 4 views although more were asked
\* for, and the function returned None
C26_Witness ==
    /\ tool = "camera" /\ pc = "return"
    /\ args.num_images >= MinCalibrationViews
    /\ Len(all_corners) = MinCalibrationViews - 1
    /\ returned = None

\* the run is at the calibration step or has left with a failure
CalibrationOrFailure ==
    pc = "save" \/ (pc = "exit" /\ exit_code \in {1, 2})

\* the case of the claim: a run of the pipeline with step and cap >= 1
StepAndCapPositive ==
    tool = "pipeline" /\ args.frame_step >= 1 /\ args.max_frames >= 1

\* a bound on the steps main takes before it is past the acquisition and
\* the test of the frame count
AcquisitionVariant ==
    CASE pc = "start"    -> 3 + args.max_frames * args.frame_step
      [] pc = "images"   -> 2 + Min(Len(image_list), args.max_frames) - i
      [] pc = "capture"  -> 2 + args.max_frames * args.frame_step - frame_idx
      [] pc = "finalize" -> 1
      [] OTHER           -> 0

\* the run reaches the calibration step or a failure exit
EventuallyCalibrationOrFailure == StepAndCapPositive => <>CalibrationOrFailure

\* main is in the acquisition or at the test of the frame count
InAcquisition == pc \in {"start", "images", "capture", "finalize"}

\* C23: for every frame step >= 1 and every frame cap >= 1 the acquisition
\* loop terminates: the image loop never goes past the end of the list or
\* the cap, the capture loop never goes on after cap frames were processed,
\* even on a source that keeps delivering frames, and the run then reaches
\* the calibration step or a failure exit.  Stated with a variant: every
\* step of main up to the test of the frame count lowers
\* AcquisitionVariant, which is never negative, and the step after that
\* test is the calibration step or a failure exit.
C23_AcquisitionTerminates ==
    /\ [](StepAndCapPositive =>
            /\ pc = "images" => (i <= Len(image_list) /\ i <= args.max_frames)
            /\ pc = "capture" => used < args.max_frames
            /\ used <= args.max_frames
            /\ AcquisitionVariant >= 0)
    /\ [][(StepAndCapPositive /\ InAcquisition) =>
            AcquisitionVariant' < AcquisitionVariant]_vars
    /\ [][(StepAndCapPositive /\ pc = "finalize") => CalibrationOrFailure']_vars

\* C23 witness: a capture that kept delivering frames was left at the cap,
\* with no stop key, after more frames than the cap were read
C23_Witness ==
    /\ tool = "pipeline" /\ pc = "finalize" /\ image_list = NoList
    /\ args.max_frames >= 1
    /\ used = args.max_frames
    /\ frame_idx > args.max_frames
    /\ key # ESC

====
